---------------------------- MODULE Spec2Model ----------------------------
(***************************************************************************)
(* Hybrid retrieval over a structured store of hazardous-chemical records  *)
(* (MySQLHandler) and a TF-IDF semantic index (VectorHandler), as          *)
(* implemented by HybridRetriever.                                         *)
(*                                                                         *)
(* Text.  A Python str is modelled as a sequence of characters; each       *)
(* character is a short ASCII string.  ASCII characters stand for          *)
(* themselves; a CJK character is written as its pinyin, with a digit      *)
(* appended where two characters of the source share a reading:            *)
(*   hua xue pin = 化学品   wu zhi = 物质      ye ti = 液体              *)
(*   gu ti = 固体           qi ti = 气体       dian chi = 电池           *)
(*   suan = 酸  jian = 碱  chun = 醇  mi = 醚  li = 锂                    *)
(*   li2 zi = 离子          jin shu = 金属     he jin = 合金             *)
(*   yi ran = 易燃          fu shi = 腐蚀      xing = 性                 *)
(*   you du = 有毒          du xing = 毒性     nian he ji = 黏合剂       *)
(*   jiao = 胶  jiao shui = 胶水  qi2 you2 = 汽油  ran liao = 燃料        *)
(*   yi2 chun = 乙醇        jiu jing = 酒精    de = 的                   *)
(*   cun chu = 存储         chu cun = 储存     bao3 cun = 保存           *)
(*   yao qiu = 要求         yun shu2 = 运输    an quan = 安全            *)
(*   bao1 zhuang = 包装     wei xian = 危险    zhu yi4 shi4 xiang = 注意事项 *)
(*   gui ding = 规定        di = 第  lei = 类  lei bie = 类别             *)
(*   lian he guo = 联合国   bian hao = 编号    zhong wen = 中文          *)
(*   ming cheng = 名称      te shu = 特殊      ":" = the full-width colon *)
(* Scores are integers in thousandths: 1000 models 1.0, 900 models 0.9.    *)
(***************************************************************************)
EXTENDS Integers, Sequences, FiniteSets, TLC

(***************************************************************************)
(* Character classes of Python's re module on str patterns.                *)
(***************************************************************************)
DigitChars == {"0", "1", "2", "3", "4", "5", "6", "7", "8", "9"}

AsciiLetters == {"U", "N", "u", "n", "a", "I", "D"}

SpaceChars == {" "}

PunctChars == {"!", "@", "|", ":"}

IsDigit(c) == c \in DigitChars

IsSpace(c) == c \in SpaceChars

\* \w : letters (ASCII and CJK), digits, underscore
IsWordChar(c) == c \notin SpaceChars /\ c \notin PunctChars

IsAsciiAlnum(c) == c \in DigitChars \/ c \in AsciiLetters

IsCJK(c) == IsWordChar(c) /\ ~IsAsciiAlnum(c)

DigitVal(c) ==
  CASE c = "0" -> 0 [] c = "1" -> 1 [] c = "2" -> 2 [] c = "3" -> 3
    [] c = "4" -> 4 [] c = "5" -> 5 [] c = "6" -> 6 [] c = "7" -> 7
    [] c = "8" -> 8 [] c = "9" -> 9

DigitChar(d) ==
  CASE d = 0 -> "0" [] d = 1 -> "1" [] d = 2 -> "2" [] d = 3 -> "3"
    [] d = 4 -> "4" [] d = 5 -> "5" [] d = 6 -> "6" [] d = 7 -> "7"
    [] d = 8 -> "8" [] d = 9 -> "9"

(***************************************************************************)
(* Generic helpers on sequences (Python list and str operations).          *)
(***************************************************************************)
Min(a, b) == IF a <= b THEN a ELSE b

Max(a, b) == IF a >= b THEN a ELSE b

Range(s) == {s[i] : i \in DOMAIN s}

\* s[:k] for k >= 0
Take(s, k) == SubSeq(s, 1, Min(k, Len(s)))

\* s[i-1:j] with 1-based inclusive bounds: empty when j < i, cut at the end
Slice(s, i, j) == IF j < i \/ i > Len(s) THEN <<>> ELSE SubSeq(s, i, Min(j, Len(s)))

RECURSIVE Flatten(_)
Flatten(ss) == IF ss = <<>> THEN <<>> ELSE Head(ss) \o Flatten(Tail(ss))

RECURSIVE SelectSeqBy(_, _)
\* the subsequence of s at the positions in P
SelectSeqBy(s, P) ==
  IF s = <<>> THEN <<>>
  ELSE LET n == Len(s)
           init == SelectSeqBy(SubSeq(s, 1, n - 1), P)
       IN IF n \in P THEN Append(init, s[n]) ELSE init

\* sub occurs in s starting at position i
OccursAt(sub, s, i) ==
  /\ i >= 1
  /\ i + Len(sub) - 1 <= Len(s)
  /\ \A j \in 1..Len(sub) : s[i + j - 1] = sub[j]

\* Python: sub in s
Contains(s, sub) == \E i \in 1..(Len(s) + 1) : OccursAt(sub, s, i)

\* int(str) for a string of decimal digits
RECURSIVE ParseInt(_)
ParseInt(ds) ==
  IF ds = <<>> THEN 0
  ELSE 10 * ParseInt(SubSeq(ds, 1, Len(ds) - 1)) + DigitVal(ds[Len(ds)])

\* str(int) for n >= 0
RECURSIVE IntToStr(_)
IntToStr(n) ==
  IF n < 10 THEN <<DigitChar(n)>>
  ELSE Append(IntToStr(n \div 10), DigitChar(n % 10))

\* str.strip()
RECURSIVE Strip(_)
Strip(s) ==
  IF s = <<>> THEN s
  ELSE IF IsSpace(s[1]) THEN Strip(Tail(s))
  ELSE IF IsSpace(s[Len(s)]) THEN Strip(SubSeq(s, 1, Len(s) - 1))
  ELSE s

\* str.split(): maximal runs of non-space characters
RECURSIVE Split(_)
Split(s) ==
  IF s = <<>> THEN <<>>
  ELSE IF IsSpace(s[1]) THEN Split(Tail(s))
  ELSE LET ends == {i \in 1..Len(s) : \A j \in 1..i : ~IsSpace(s[j])}
           e == CHOOSE i \in ends : \A j \in ends : j <= i
       IN <<SubSeq(s, 1, e)>> \o Split(SubSeq(s, e + 1, Len(s)))

\* str.isdigit()
IsDigitStr(s) == s # <<>> /\ \A i \in DOMAIN s : IsDigit(s[i])

\* list(dict.fromkeys(s)): first occurrences, order kept
RECURSIVE Unique(_)
Unique(s) ==
  IF s = <<>> THEN <<>>
  ELSE LET init == Unique(SubSeq(s, 1, Len(s) - 1))
       IN IF s[Len(s)] \in Range(init) THEN init ELSE Append(init, s[Len(s)])

(***************************************************************************)
(* The identifier pattern  \bUN\s*(\d+)\b|\b(\d{4})\b  with re.IGNORECASE. *)
(***************************************************************************)
\* \b before position i (between s[i-1] and s[i])
WordBoundary(s, i) ==
  LET before == i > 1 /\ i - 1 <= Len(s) /\ IsWordChar(s[i - 1])
      after == i >= 1 /\ i <= Len(s) /\ IsWordChar(s[i])
  IN before # after

\* last position of the maximal run of characters of the set C starting at i,
\* i - 1 when s[i] is not in the class
RECURSIVE RunEnd(_, _, _)
RunEnd(s, i, C) ==
  IF i <= Len(s) /\ s[i] \in C THEN RunEnd(s, i + 1, C) ELSE i - 1

\* \bUN\s*(\d+)\b at position i: <<first digit, last digit>> or <<>>.
\* \s* and \d+ are greedy, and giving a character back never helps: after a
\* shorter run the next character is a space (not a digit) or a digit (no \b).
MatchUN(s, i) ==
  IF /\ i + 1 <= Len(s)
     /\ WordBoundary(s, i)
     /\ s[i] \in {"U", "u"}
     /\ s[i + 1] \in {"N", "n"}
  THEN LET d == RunEnd(s, i + 2, SpaceChars) + 1
           e == RunEnd(s, d, DigitChars)
       IN IF e >= d /\ WordBoundary(s, e + 1) THEN <<d, e>> ELSE <<>>
  ELSE <<>>

\* \b(\d{4})\b at position i
MatchFourDigits(s, i) ==
  IF /\ i + 3 <= Len(s)
     /\ WordBoundary(s, i)
     /\ \A j \in i..(i + 3) : IsDigit(s[j])
     /\ WordBoundary(s, i + 4)
  THEN <<i, i + 3>>
  ELSE <<>>

\* the alternation tried at position i: first alternative first
MatchIdentifier(s, i) ==
  IF MatchUN(s, i) # <<>> THEN MatchUN(s, i) ELSE MatchFourDigits(s, i)

\* re.search(pattern, query) is not None
SearchIdentifier(s) == \E i \in 1..Len(s) : MatchIdentifier(s, i) # <<>>

\* re.findall: non-overlapping matches scanned left to right; each element is
\* the captured digit string (match[0] or match[1])
RECURSIVE FindAllFrom(_, _)

\* the scan after the attempt m at position i: on a match the capture is
\* kept and the scan goes on after the match
ScanOn(s, i, m) ==
  IF m = <<>> THEN FindAllFrom(s, i + 1)
  ELSE <<SubSeq(s, m[1], m[2])>> \o FindAllFrom(s, m[2] + 1)

FindAllFrom(s, i) ==
  IF i > Len(s) THEN <<>> ELSE ScanOn(s, i, MatchIdentifier(s, i))

FindAllIdentifiers(s) == FindAllFrom(s, 1)

(***************************************************************************)
(* Query classifier.                                                       *)
(***************************************************************************)
chemical_keywords ==
  << <<"hua", "xue", "pin">>, <<"wu", "zhi">>, <<"ye", "ti">>,
     <<"gu", "ti">>, <<"qi", "ti">>, <<"dian", "chi">>,
     <<"suan">>, <<"jian">>, <<"chun">>, <<"mi">> >>

\* a classifier that looks for the domain nouns first
DetectQueryTypeNounFirst(query) ==
  IF \E k \in DOMAIN chemical_keywords : Contains(query, chemical_keywords[k])
    THEN "name_search"
  ELSE IF SearchIdentifier(query) THEN "un_number"
  ELSE "natural_language"

DetectQueryType(query) ==
  IF SearchIdentifier(query) THEN "un_number"
  ELSE IF \E k \in DOMAIN chemical_keywords : Contains(query, chemical_keywords[k])
       THEN "name_search"
  ELSE "natural_language"

(***************************************************************************)
(* Term expansion for the name fallback of the exact search.  The code     *)
(* returns list(set(...)): every branch yields distinct terms, and the     *)
(* iteration order of a set of str is not fixed (see SetOrder).            *)
(***************************************************************************)
w_li == <<"li">>
w_dianchi == <<"dian", "chi">>
w_lidianchi == <<"li", "dian", "chi">>
w_lilizidianchi == <<"li", "li2", "zi", "dian", "chi">>
w_lijinshudianchi == <<"li", "jin", "shu", "dian", "chi">>
w_lihejindianchi == <<"li", "he", "jin", "dian", "chi">>
w_yiran == <<"yi", "ran">>
w_fushi == <<"fu", "shi">>
w_youdu == <<"you", "du">>

ExpandSearchTerms(query) ==
  LET battery ==
        IF Contains(query, w_lidianchi)
          THEN <<w_lilizidianchi, w_lijinshudianchi, w_lihejindianchi>>
        ELSE IF Contains(query, w_dianchi) /\ Contains(query, w_li)
          THEN <<w_lilizidianchi, w_lijinshudianchi>>
        ELSE IF Contains(query, w_dianchi)
          THEN <<w_lilizidianchi, w_lijinshudianchi, w_dianchi>>
        ELSE <<>>
      class ==
        IF Contains(query, w_yiran)
          THEN << w_yiran \o <<"ye", "ti">>, w_yiran \o <<"gu", "ti">>,
                  w_yiran \o <<"qi", "ti">> >>
        ELSE IF Contains(query, w_fushi)
          THEN << w_fushi \o <<"xing", "wu", "zhi">>,
                  w_fushi \o <<"xing", "ye", "ti">> >>
        ELSE IF Contains(query, w_youdu)
          THEN << w_youdu \o <<"wu", "zhi">>, <<"du", "xing", "wu", "zhi">> >>
        ELSE <<>>
  IN battery \o class

\* list(set(terms)): the iteration order of a set of str depends on the
\* process's string hash seed; seed 0 keeps the list order, an odd seed
\* reverses it, and the list is then rotated by seed \div 2
Reverse(s) == [i \in 1..Len(s) |-> s[Len(s) + 1 - i]]

Rotate(s, r) ==
  IF s = <<>> THEN s ELSE [i \in 1..Len(s) |-> s[((i - 1 + r) % Len(s)) + 1]]

SetOrder(s, seed) == Rotate(IF seed % 2 = 1 THEN Reverse(s) ELSE s, seed \div 2)

(***************************************************************************)
(* Name extraction for the fallback search.                                *)
(***************************************************************************)
w_yaoqiu == <<"yao", "qiu">>
w_de == <<"de">>

ExtractPatterns ==
  << <<"cun", "chu">> \o w_yaoqiu,
     <<"chu", "cun">> \o w_yaoqiu,
     <<"bao3", "cun">> \o w_yaoqiu,
     w_de \o <<"cun", "chu">> \o w_yaoqiu,
     w_de \o <<"chu", "cun">> \o w_yaoqiu,
     w_de \o <<"bao3", "cun">> \o w_yaoqiu,
     <<"yun", "shu2">> \o w_yaoqiu,
     w_de \o <<"yun", "shu2">> \o w_yaoqiu,
     <<"an", "quan">> \o w_yaoqiu,
     w_de \o <<"an", "quan">> \o w_yaoqiu,
     <<"bao1", "zhuang">> \o w_yaoqiu,
     w_de \o <<"bao1", "zhuang">> \o w_yaoqiu,
     <<"wei", "xian", "xing">>,
     w_de \o <<"wei", "xian", "xing">>,
     <<"zhu", "yi4", "shi4", "xiang">>,
     w_de \o <<"zhu", "yi4", "shi4", "xiang">>,
     <<"gui", "ding">>,
     w_de \o <<"gui", "ding">> >>

\* re.search(r'(.+?)SUFFIX', query).group(1), or <<>> when there is no match.
\* The search succeeds at start 0 as soon as SUFFIX occurs after at least one
\* character, and the lazy group stops at the first such occurrence.
SearchBefore(query, suffix) ==
  LET at == {i \in 2..Len(query) : OccursAt(suffix, query, i)}
  IN IF at = {} THEN <<>>
     ELSE LET first == CHOOSE i \in at : \A j \in at : i <= j
          IN SubSeq(query, 1, first - 1)

\* re.search(r'[0-9]{3,}', name)
HasThreeDigits(name) ==
  \E i \in 1..(Len(name) - 2) : \A j \in i..(i + 2) : IsDigit(name[j])

\* names kept, in pattern order (a pattern that does not match, or whose name
\* is filtered out, contributes nothing)
RECURSIVE ExtractFrom(_, _)
ExtractFrom(query, k) ==
  IF k > Len(ExtractPatterns) THEN <<>>
  ELSE LET name == Strip(SearchBefore(query, ExtractPatterns[k]))
       IN (IF Len(name) >= 2 /\ ~HasThreeDigits(name) THEN <<name>> ELSE <<>>)
          \o ExtractFrom(query, k + 1)

ExtractChemicalNames(query) == Take(Unique(ExtractFrom(query, 1)), 3)

(***************************************************************************)
(* Structured store (MySQLHandler): rows of hazardous_chemicals_catalog in *)
(* primary-key order.  The columns the retriever reads are kept.           *)
(***************************************************************************)
w_nianheji == <<"nian", "he", "ji">>
w_qiyou == <<"qi2", "you2">>

Catalog ==
  << [id |-> 1, un_number |-> 1133, chinese_name |-> w_nianheji,
      category |-> <<"3">>, packaging_group |-> <<"I">>,
      special_provisions |-> <<>>],
     [id |-> 2, un_number |-> 1133, chinese_name |-> w_nianheji,
      category |-> <<"3">>, packaging_group |-> <<"I", "I">>,
      special_provisions |-> <<"6", "4", "0", "D">>],
     [id |-> 3, un_number |-> 3480, chinese_name |-> w_lilizidianchi,
      category |-> <<"9">>, packaging_group |-> <<>>,
      special_provisions |-> <<"1", "8", "8", " ", "2", "3", "0">>],
     [id |-> 4, un_number |-> 1203, chinese_name |-> w_qiyou,
      category |-> <<"3">>, packaging_group |-> <<"I", "I">>,
      special_provisions |-> <<"2", "4", "3">>] >>

\* a lookup that stops at the first row of the number
QueryByUnNumberFirst(rows, ok, un) ==
  IF ok THEN Take(SelectSeq(rows, LAMBDA r : r.un_number = un), 1) ELSE <<>>

\* MySQLHandler.query_by_un_number: every row with that number; a database
\* error is caught inside the handler and gives the empty list
QueryByUnNumber(rows, ok, un) ==
  IF ok THEN SelectSeq(rows, LAMBDA r : r.un_number = un) ELSE <<>>

\* MySQLHandler.search_by_name: chinese_name LIKE '%name%' LIMIT limit
SearchByName(rows, ok, name, limit) ==
  IF ok
    THEN Take(SelectSeq(rows, LAMBDA r : Contains(r.chinese_name, name)), limit)
    ELSE <<>>

\* MySQLHandler.get_all_chemicals
GetAllChemicals(rows, ok) == IF ok THEN rows ELSE <<>>

(***************************************************************************)
(* Text processing for the semantic index.                                 *)
(***************************************************************************)
Sep == <<" ", "|", " ">>

\* " | ".join(parts)
RECURSIVE Join(_)
Join(parts) ==
  IF parts = <<>> THEN <<>>
  ELSE IF Len(parts) = 1 THEN parts[1]
  ELSE parts[1] \o Sep \o Join(Tail(parts))

\* TextProcessor.create_chemical_document: one "label:value" part per
\* non-empty column
CreateChemicalDocument(r) ==
  Join(
    (IF r.un_number # 0
       THEN << <<"lian", "he", "guo", "bian", "hao", ":", "U", "N">>
               \o IntToStr(r.un_number) >>
       ELSE <<>>)
    \o (IF r.chinese_name # <<>>
          THEN << <<"zhong", "wen", "ming", "cheng", ":">> \o r.chinese_name >>
          ELSE <<>>)
    \o (IF r.category # <<>>
          THEN << <<"wei", "xian", "lei", "bie", ":">> \o r.category >>
          ELSE <<>>)
    \o (IF r.packaging_group # <<>>
          THEN << <<"bao1", "zhuang", "lei", "bie", ":">> \o r.packaging_group >>
          ELSE <<>>)
    \o (IF r.special_provisions # <<>>
          THEN << <<"te", "shu", "gui", "ding", ":">> \o r.special_provisions >>
          ELSE <<>>))

\* the words jieba's dictionary knows among the modelled characters
Dictionary ==
  { <<"lian", "he", "guo">>, <<"bian", "hao">>, <<"zhong", "wen">>,
    <<"ming", "cheng">>, <<"wei", "xian">>, <<"lei", "bie">>,
    <<"bao1", "zhuang">>, <<"te", "shu">>, <<"gui", "ding">>,
    w_nianheji, w_qiyou, w_dianchi, w_lidianchi, <<"li", "li2", "zi">>,
    <<"yun", "shu2">>, <<"an", "quan">>, w_yaoqiu, w_yiran,
    <<"ye", "ti">>, <<"jiao", "shui">>, <<"ran", "liao">> }

\* jieba.cut at position i: a run of ASCII letters and digits is one word, a
\* run of CJK characters is cut into the longest dictionary word at each
\* position (a single character when none fits), anything else is cut off
\* as a single character.  Returns the last position of the word at i.
WordEnd(s, i) ==
  IF IsAsciiAlnum(s[i]) THEN RunEnd(s, i, DigitChars \cup AsciiLetters)
  ELSE IF IsCJK(s[i])
    THEN LET fits == {e \in i..Len(s) : SubSeq(s, i, e) \in Dictionary}
         IN IF fits = {} THEN i ELSE CHOOSE e \in fits : \A f \in fits : f <= e
  ELSE i

RECURSIVE Cut(_, _)
Cut(s, i) ==
  IF i > Len(s) THEN <<>>
  ELSE LET e == WordEnd(s, i)
       IN <<SubSeq(s, i, e)>> \o Cut(s, e + 1)

StopWords == {<<"de">>}

\* SimpleTfidfVectorizer._chinese_tokenizer
StripAll(words) == [k \in DOMAIN words |-> Strip(words[k])]

ChineseTokenizer(text) ==
  SelectSeq(StripAll(Cut(text, 1)), LAMBDA w : Len(w) > 1 /\ w \notin StopWords)

(***************************************************************************)
(* TF-IDF encoder (sklearn TfidfVectorizer, smooth idf, l2 norm) and       *)
(* cosine similarity.  Weights are integers in tenths; a vector is kept    *)
(* unnormalised and the norms are divided out when two vectors are         *)
(* compared, which is what inner product on normalised vectors computes.   *)
(***************************************************************************)
\* IdfTable[a][b] = round(10 * (ln(a / b) + 1)) for 1 <= b <= a
IdfTable ==
  <<
     <<10, 0, 0, 0, 0, 0, 0, 0, 0, 0, 0, 0, 0, 0>>,
     <<17, 10, 0, 0, 0, 0, 0, 0, 0, 0, 0, 0, 0, 0>>,
     <<21, 14, 10, 0, 0, 0, 0, 0, 0, 0, 0, 0, 0, 0>>,
     <<24, 17, 13, 10, 0, 0, 0, 0, 0, 0, 0, 0, 0, 0>>,
     <<26, 19, 15, 12, 10, 0, 0, 0, 0, 0, 0, 0, 0, 0>>,
     <<28, 21, 17, 14, 12, 10, 0, 0, 0, 0, 0, 0, 0, 0>>,
     <<29, 23, 18, 16, 13, 12, 10, 0, 0, 0, 0, 0, 0, 0>>,
     <<31, 24, 20, 17, 15, 13, 11, 10, 0, 0, 0, 0, 0, 0>>,
     <<32, 25, 21, 18, 16, 14, 13, 11, 10, 0, 0, 0, 0, 0>>,
     <<33, 26, 22, 19, 17, 15, 14, 12, 11, 10, 0, 0, 0, 0>>,
     <<34, 27, 23, 20, 18, 16, 15, 13, 12, 11, 10, 0, 0, 0>>,
     <<35, 28, 24, 21, 19, 17, 15, 14, 13, 12, 11, 10, 0, 0>>,
     <<36, 29, 25, 22, 20, 18, 16, 15, 14, 13, 12, 11, 10, 0>>,
     <<36, 29, 25, 23, 20, 18, 17, 16, 14, 13, 12, 12, 11, 10>> >>

Count(tokens, t) == Cardinality({k \in DOMAIN tokens : tokens[k] = t})

UnfittedVectorizer == [is_fitted |-> FALSE, vocabulary |-> {}, idf |-> <<>>]

\* fit: the vocabulary is every token of the documents, and
\* idf(t) = ln((1 + n) / (1 + df(t))) + 1
FitTokens(toks) ==
  LET vocab == UNION {Range(toks[k]) : k \in DOMAIN toks}
      df(t) == Cardinality({k \in DOMAIN toks : t \in Range(toks[k])})
  IN [is_fitted |-> TRUE,
      vocabulary |-> vocab,
      idf |-> [t \in vocab |-> IdfTable[1 + Len(toks)][1 + df(t)]]]

Fit(documents) == FitTokens([k \in DOMAIN documents |-> ChineseTokenizer(documents[k])])

\* term count times idf, over the fitted vocabulary
TermWeights(vectorizer, toks) ==
  [t \in vectorizer.vocabulary |-> Count(toks, t) * vectorizer.idf[t]]

\* transform of one text
Transform(vectorizer, text) == TermWeights(vectorizer, ChineseTokenizer(text))

Dot(u, v) ==
  LET terms == DOMAIN u
      RECURSIVE Sum(_)
      Sum(T) == IF T = {} THEN 0
                ELSE LET t == CHOOSE x \in T : TRUE
                     IN u[t] * v[t] + Sum(T \ {t})
  IN Sum(terms)

RECURSIVE IsqrtIn(_, _, _)
IsqrtIn(n, lo, hi) ==
  IF lo >= hi THEN lo
  ELSE LET mid == (lo + hi + 1) \div 2
       IN IF mid * mid <= n THEN IsqrtIn(n, mid, hi) ELSE IsqrtIn(n, lo, mid - 1)

\* floor of the square root, for 0 <= n < 2^30
Isqrt(n) == IsqrtIn(n, 0, 32767)

\* 100 times the l2 norm of a vector, rounded down
Norm(v) == Isqrt(Dot(v, v) * 10000)

\* inner product of the two normalised vectors, in thousandths, from the
\* vectors and their norms; normalize_L2 leaves a zero vector as it is, and
\* its inner products are 0
Similarity(q, qnorm, d, dnorm) ==
  IF qnorm = 0 \/ dnorm = 0 THEN 0
  ELSE Min(1000, (((Dot(q, d) * 10000) \div qnorm) * 1000) \div dnorm)

(***************************************************************************)
(* Semantic index (VectorHandler).  A handler value vh is the record       *)
(* [index, documents, metadata, vectorizer]; index.exists is FALSE for     *)
(* self.index = None and index.vectors is the list of stored vectors.      *)
(***************************************************************************)
NoIndex == [exists |-> FALSE, vectors |-> <<>>]

\* sorted(s, key=score, reverse=True): stable, equal scores keep their order
RECURSIVE SortByScore(_)
SortByScore(s) ==
  IF s = <<>> THEN <<>>
  ELSE LET x == s[Len(s)]
           init == SortByScore(SubSeq(s, 1, Len(s) - 1))
           \* x goes after every element whose score is at least its own
           n == Cardinality({k \in DOMAIN init : init[k].score >= x.score})
       IN SubSeq(init, 1, n) \o <<x>> \o SubSeq(init, n + 1, Len(init))

\* metadata written by VectorHandler.import_mysql_data
ChemicalMetadata(r) ==
  [source |-> "mysql", doc_type |-> "chemical",
   un_number |-> IntToStr(r.un_number), chinese_name |-> r.chinese_name,
   category |-> r.category, packaging_group |-> r.packaging_group,
   id |-> <<"chemical_">> \o IntToStr(r.un_number)]

\* metadata written by TextProcessor.process_markdown_content and completed
\* by VectorHandler.import_markdown_data
RegulationMetadata(section_id, chunk_id) ==
  [source |-> "appendix_a", section_id |-> section_id, chunk_id |-> chunk_id,
   doc_type |-> "regulation",
   id |-> <<"appendix_">> \o IntToStr(section_id) \o <<"_">> \o IntToStr(chunk_id)]

\* VectorHandler._add_documents_batch, for a non-empty batch: the first batch
\* on an absent index fits the encoder, a later batch only transforms
\* a stored vector is kept with the norm normalize_L2 divides it by
Normalized(v) == [v |-> v, norm |-> Norm(v)]

\* an add that puts the new documents in front of the stored ones
AddVectorsPrepend(vh, enc, docs, metas) ==
  [index |-> [exists |-> TRUE,
              vectors |-> [k \in DOMAIN docs |-> Normalized(Transform(enc, docs[k]))]
                          \o vh.index.vectors],
   documents |-> docs \o vh.documents,
   metadata |-> metas \o vh.metadata,
   vectorizer |-> enc]

\* index.add and the extension of the two lists, with the encoder enc
AddVectors(vh, enc, docs, metas) ==
  [index |-> [exists |-> TRUE,
              vectors |-> vh.index.vectors
                          \o [k \in DOMAIN docs |-> Normalized(Transform(enc, docs[k]))]],
   documents |-> vh.documents \o docs,
   metadata |-> vh.metadata \o metas,
   vectorizer |-> enc]

\* a batch that fits the encoder on its documents every time
AddDocumentsBatchRefit(vh, docs, metas) == AddVectors(vh, Fit(docs), docs, metas)

AddDocumentsBatch(vh, docs, metas) ==
  AddVectors(vh, IF vh.index.exists THEN vh.vectorizer ELSE Fit(docs), docs, metas)

\* one formatted result of VectorHandler.semantic_search
VectorResult(content, meta, score) ==
  [content |-> content, metadata |-> meta, score |-> score,
   distance |-> 1000 - score, id |-> meta.id]

\* VectorHandler.semantic_search.  ok = FALSE is a failure of the index
\* during the call, which the handler catches.  The index returns the
\* min(top_k, ntotal) most similar vectors, best first, equal scores by
\* position.
\* the inner product of the query vector with every stored vector
IndexScores(vh, qv, qnorm) ==
  [idx \in DOMAIN vh.index.vectors |->
     [idx |-> idx,
      score |-> Similarity(qv, qnorm, vh.index.vectors[idx].v, vh.index.vectors[idx].norm)]]

\* index.search(query_vector, k)
IndexSearch(vh, qv, k) == Take(SortByScore(IndexScores(vh, qv.v, qv.norm)), k)

\* the loop over (score, idx): valid positions above the minimum score
FormattedResults(vh, nearest) ==
  LET kept == SelectSeq(nearest, LAMBDA n : n.idx <= Len(vh.documents) /\ n.score > 100)
  IN [k \in DOMAIN kept |->
        VectorResult(vh.documents[kept[k].idx], vh.metadata[kept[k].idx], kept[k].score)]

VectorSemanticSearch(vh, ok, query, top_k) ==
  IF ~ok \/ top_k <= 0 THEN <<>>
  ELSE IF ~vh.index.exists \/ Len(vh.index.vectors) = 0 THEN <<>>
  ELSE IF ~vh.vectorizer.is_fitted THEN <<>>
  ELSE FormattedResults(vh,
         IndexSearch(vh, Normalized(Transform(vh.vectorizer, query)),
                     Min(top_k, Len(vh.index.vectors))))

(***************************************************************************)
(* HybridRetriever.  env is the environment of one retrieve call:          *)
(*   rows, store_ok   the structured store and whether it answers          *)
(*   vh, index_ok     the semantic index and whether it answers            *)
(*   seed             the string hash seed of the process (see SetOrder)   *)
(*   fault            the function whose verbose print raises (standard    *)
(*                    output closed or unable to encode the text), or      *)
(*                    "none"; only a call made with verbose = TRUE prints  *)
(***************************************************************************)
FaultSites ==
  {"retrieve", "retrieve_fallback", "auto", "exact", "semantic", "hybrid",
   "build", "fallback"}

Raises(env, verbose, site) == verbose /\ env.fault = site

similarity_threshold == 100

\* value shown for a column: 'null' for an empty one
ShownValue(v) == IF Strip(v) = <<>> THEN <<"null">> ELSE v

FormatChemicalContent(chemical) ==
  << IntToStr(chemical.un_number), ShownValue(chemical.chinese_name),
     ShownValue(chemical.category), ShownValue(chemical.packaging_group),
     ShownValue(chemical.special_provisions) >>

ExactHit(chemical, search_type, score) ==
  [content |-> FormatChemicalContent(chemical),
   metadata |-> [source |-> "mysql", doc_type |-> "chemical",
                 un_number |-> IntToStr(chemical.un_number),
                 search_type |-> search_type],
   score |-> score,
   chemical_data |-> chemical]

\* the name fallback of _exact_search: the direct substring search, then, if
\* it found nothing, the expanded terms until top_k rows are collected
RECURSIVE ExpandedSearch(_, _, _, _)
\* the loop over the expanded terms once a term's rows are added
ExpandedMore(env, terms, top_k, more) ==
  IF Len(more) >= top_k THEN more ELSE ExpandedSearch(env, Tail(terms), top_k, more)

ExpandedSearch(env, terms, top_k, chemicals) ==
  IF terms = <<>> THEN chemicals
  ELSE ExpandedMore(env, terms, top_k,
         chemicals \o SearchByName(env.rows, env.store_ok, Head(terms), top_k))

\* "if not chemicals": the expanded terms are tried when the direct search
\* found nothing
DirectOrExpanded(env, query, top_k, direct) ==
  IF direct # <<>> THEN direct
  ELSE ExpandedSearch(env, SetOrder(ExpandSearchTerms(query), env.seed), top_k, <<>>)

NameSearch(env, query, top_k) ==
  DirectOrExpanded(env, query, top_k, SearchByName(env.rows, env.store_ok, query, top_k))

\* lookups made from the last extracted identifier to the first
QueryEachReversed(env, un_numbers) ==
  Flatten([k \in DOMAIN un_numbers |->
             QueryByUnNumber(env.rows, env.store_ok,
                             ParseInt(un_numbers[Len(un_numbers) + 1 - k]))])

\* one lookup per extracted identifier, in extraction order
QueryEach(env, un_numbers) ==
  Flatten([k \in DOMAIN un_numbers |->
             QueryByUnNumber(env.rows, env.store_ok, ParseInt(un_numbers[k]))])

\* the records found for the identifiers of the query
IdentifierLookup(env, query) == QueryEach(env, FindAllIdentifiers(query))

ExactHits(chemicals, search_type, score) ==
  [k \in DOMAIN chemicals |-> ExactHit(chemicals[k], search_type, score)]

\* "if not results": the name search runs when the identifier lookups gave
\* no record
IdentifierOrName(env, query, top_k, found) ==
  IF found # <<>> THEN ExactHits(found, "exact_un", 1000)
  ELSE ExactHits(Take(NameSearch(env, query, top_k), top_k), "exact_name", 900)

ExactSearch(env, query, top_k, verbose) ==
  IF Raises(env, verbose, "exact") THEN <<>>
  ELSE Take(IdentifierOrName(env, query, top_k, IdentifierLookup(env, query)), top_k)

\* the hit _semantic_search makes of one result of the index
SemanticHit(vector_result) ==
  [content |-> vector_result.content,
   metadata |-> vector_result.metadata,
   score |-> Max(0, 1000 - vector_result.distance),
   search_type |-> "semantic"]

\* the loop over vector_results: hits at or above the configured threshold
SemanticHits(vector_results) ==
  SelectSeq([k \in DOMAIN vector_results |-> SemanticHit(vector_results[k])],
            LAMBDA h : h.score >= similarity_threshold)

SemanticSearch(env, query, top_k, verbose) ==
  IF Raises(env, verbose, "semantic") THEN <<>>
  ELSE SemanticHits(VectorSemanticSearch(env.vh, env.index_ok, query, top_k))

\* a key read from the hit itself, where only the index's raw results carry
\* an id: every hit of the semantic search gets the same key
MergeKeyTopLevelId(result) ==
  IF "chemical_data" \in DOMAIN result
    THEN <<"un_">> \o IntToStr(result.chemical_data.un_number)
         \o <<"_pkg_">> \o result.chemical_data.packaging_group
  ELSE IF "id" \in DOMAIN result THEN result.id
  ELSE <<"None">>

\* the deduplication key of _merge_results; str(hash(content)) is taken to be
\* different for different contents
MergeKey(result) ==
  IF "chemical_data" \in DOMAIN result
    THEN <<"un_">> \o IntToStr(result.chemical_data.un_number)
         \o <<"_pkg_">> \o result.chemical_data.packaging_group
  ELSE IF "id" \in DOMAIN result.metadata THEN result.metadata.id
  ELSE <<"hash_">> \o result.content

\* a merge that keeps the first hit of a key whatever the scores
RECURSIVE MergeIntoFirstWins(_, _)
MergeIntoFirstWins(merged, results) ==
  IF results = <<>> THEN merged
  ELSE IF \E k \in DOMAIN merged : MergeKey(merged[k]) = MergeKey(Head(results))
    THEN MergeIntoFirstWins(merged, Tail(results))
  ELSE MergeIntoFirstWins(Append(merged, Head(results)), Tail(results))

\* a merge that adds the scores of the hits of a key
RECURSIVE MergeIntoSum(_, _)
MergeIntoSum(merged, results) ==
  IF results = <<>> THEN merged
  ELSE LET result == Head(results)
           at == {k \in DOMAIN merged : MergeKey(merged[k]) = MergeKey(result)}
       IN IF at = {} THEN MergeIntoSum(Append(merged, result), Tail(results))
          ELSE LET k == CHOOSE x \in at : TRUE
               IN MergeIntoSum([merged EXCEPT ![k].score = @ + result.score], Tail(results))

\* the dict of _merge_results as the list of its values in insertion order:
\* a new key is appended, a higher score replaces the value in place
RECURSIVE MergeInto(_, _)
MergeInto(merged, results) ==
  IF results = <<>> THEN merged
  ELSE LET result == Head(results)
           at == {k \in DOMAIN merged : MergeKey(merged[k]) = MergeKey(result)}
       IN IF at = {} THEN MergeInto(Append(merged, result), Tail(results))
          ELSE LET k == CHOOSE x \in at : TRUE
               IN IF result.score > merged[k].score
                    THEN MergeInto([merged EXCEPT ![k] = result], Tail(results))
                    ELSE MergeInto(merged, Tail(results))

\* a merge that deduplicates the first list only
MergeResultsSecondUnchecked(results1, results2) ==
  SortByScore(MergeInto(<<>>, results1) \o results2)

MergeResults(results1, results2) ==
  SortByScore(MergeInto(<<>>, results1 \o results2))

\* a hybrid search that gives up when one of its two searches has no hit
HybridSearchAllOrNothing(env, query, top_k, verbose) ==
  IF Raises(env, verbose, "hybrid") THEN <<>>
  ELSE IF ExactSearch(env, query, (top_k \div 2) + 1, FALSE) = <<>>
          \/ SemanticSearch(env, query, (top_k \div 2) + 1, FALSE) = <<>> THEN <<>>
  ELSE Take(MergeResults(ExactSearch(env, query, (top_k \div 2) + 1, FALSE),
                         SemanticSearch(env, query, (top_k \div 2) + 1, FALSE)),
            top_k)

HybridSearch(env, query, top_k, verbose) ==
  IF Raises(env, verbose, "hybrid") THEN <<>>
  ELSE Take(MergeResults(ExactSearch(env, query, (top_k \div 2) + 1, FALSE),
                         SemanticSearch(env, query, (top_k \div 2) + 1, FALSE)),
            top_k)

\* a top-up that asks the exact search for top_k hits whatever the number of
\* semantic hits
TopUpFullCap(env, query, top_k, semantic_results) ==
  IF Len(semantic_results) < top_k
    THEN Take(MergeResults(semantic_results, ExactSearch(env, query, top_k, FALSE)), top_k)
    ELSE semantic_results

\* the natural-language branch once the semantic search has answered: too few
\* hits are topped up by the exact search
TopUp(env, query, top_k, semantic_results) ==
  IF Len(semantic_results) < top_k
    THEN Take(MergeResults(semantic_results,
                ExactSearch(env, query, top_k - Len(semantic_results), FALSE)),
              top_k)
    ELSE semantic_results

\* the branch taken for a query type
SearchByType(env, query, top_k, verbose, query_type) ==
  IF query_type = "un_number" THEN ExactSearch(env, query, top_k, verbose)
  ELSE IF query_type = "name_search" THEN HybridSearch(env, query, top_k, verbose)
  ELSE TopUp(env, query, top_k, SemanticSearch(env, query, top_k, verbose))

AutoSearch(env, query, top_k, verbose) ==
  IF Raises(env, verbose, "auto") THEN <<>>
  ELSE SearchByType(env, query, top_k, verbose, DetectQueryType(query))

(***************************************************************************)
(* Regulation association.  The loop state is st = [related, found,        *)
(* issued]: the list related_regulations, the flag found_specific and the  *)
(* calls of vector_handler.semantic_search made so far, each with the tier *)
(* that made it and its term.                                              *)
(***************************************************************************)
\* an inner loop that takes every hit, whatever its source
RECURSIVE AddRegulationsUnfiltered(_, _, _)
AddRegulationsUnfiltered(st, regulations, specific) ==
  IF regulations = <<>> THEN st
  ELSE LET reg == Head(regulations)
       IN IF reg \notin Range(st.related)
            THEN AddRegulationsUnfiltered([st EXCEPT !.related = Append(@, reg),
                                                     !.found = @ \/ specific],
                                          Tail(regulations), specific)
            ELSE AddRegulationsUnfiltered(st, Tail(regulations), specific)

\* the inner loop "for reg in regulations": passages of the regulation corpus
\* not yet in the list are appended; specific says whether the tier sets
\* found_specific
RECURSIVE AddRegulations(_, _, _)
AddRegulations(st, regulations, specific) ==
  IF regulations = <<>> THEN st
  ELSE LET reg == Head(regulations)
       IN IF reg.metadata.source = "appendix_a" /\ reg \notin Range(st.related)
            THEN AddRegulations([st EXCEPT !.related = Append(@, reg),
                                           !.found = @ \/ specific],
                                Tail(regulations), specific)
            ELSE AddRegulations(st, Tail(regulations), specific)

\* the searches of a tier for its terms, recorded as made
Issued(st, tier, terms) ==
  [st EXCEPT !.issued = @ \o [k \in DOMAIN terms |-> [tier |-> tier, term |-> terms[k]]]]

\* one semantic search per term, in order
RECURSIVE SearchTerms(_, _, _, _, _)
SearchTerms(env, st, terms, top_k, specific) ==
  IF terms = <<>> THEN st
  ELSE SearchTerms(env,
         AddRegulations(st, VectorSemanticSearch(env.vh, env.index_ok, Head(terms), top_k),
                        specific),
         Tail(terms), top_k, specific)

w_jiao == <<"jiao">>
w_yichun == <<"yi2", "chun">>

SpecificTerms(name) ==
  (IF Contains(name, w_dianchi)
     THEN <<w_dianchi, w_lidianchi, <<"li", "li2", "zi">> >> ELSE <<>>)
  \o (IF Contains(name, w_nianheji) \/ Contains(name, w_jiao)
        THEN <<w_nianheji, <<"jiao", "shui">>, w_jiao>> ELSE <<>>)
  \o (IF Contains(name, w_qiyou) THEN <<w_qiyou, <<"ran", "liao">> >> ELSE <<>>)
  \o (IF Contains(name, w_yichun) THEN <<w_yichun, <<"jiu", "jing">> >> ELSE <<>>)

\* the body of "for chemical in chemical_data" for one hit
\* the special provision numbers of the record, searched one by one
ProvisionSearch(env, st, info) ==
  SearchTerms(env,
    Issued(st, "provision", SelectSeq(Split(info.special_provisions), IsDigitStr)),
    SelectSeq(Split(info.special_provisions), IsDigitStr), 5, TRUE)

\* the identifier of the record, searched as text
IdentifierSearch(env, st, info) ==
  IF info.un_number # 0
    THEN SearchTerms(env, Issued(st, "identifier", <<IntToStr(info.un_number)>>),
                     <<IntToStr(info.un_number)>>, 3, TRUE)
    ELSE st

\* the keywords of the record's name, when nothing specific was found yet
NameKeywordSearch(env, st, info) ==
  IF ~st.found /\ info.chinese_name # <<>>
    THEN SearchTerms(env, Issued(st, "name", Take(SpecificTerms(info.chinese_name), 3)),
                     Take(SpecificTerms(info.chinese_name), 3), 3, TRUE)
    ELSE st

\* a chemical for which the identifier and the name keywords are searched
\* whatever was found before
AfterProvisionsAllTiers(env, st, info) ==
  IF info.chinese_name # <<>>
    THEN SearchTerms(env,
           Issued(IdentifierSearch(env, st, info), "name",
                  Take(SpecificTerms(info.chinese_name), 3)),
           Take(SpecificTerms(info.chinese_name), 3), 3, TRUE)
    ELSE IdentifierSearch(env, st, info)

\* "if found_specific: continue" after the special provisions
AfterProvisions(env, st, info) ==
  IF st.found THEN st
  ELSE NameKeywordSearch(env, IdentifierSearch(env, st, info), info)

AssociateOne(env, st, chemical) ==
  IF "chemical_data" \notin DOMAIN chemical THEN st
  ELSE AfterProvisions(env, ProvisionSearch(env, st, chemical.chemical_data),
                       chemical.chemical_data)

RECURSIVE AssociateAll(_, _, _)
AssociateAll(env, st, chemical_data) ==
  IF chemical_data = <<>> THEN st
  ELSE AssociateAll(env, AssociateOne(env, st, Head(chemical_data)), Tail(chemical_data))

\* the categories of the hits that carry a record, first occurrences in order
Categories(chemical_data) ==
  LET with == SelectSeq(chemical_data,
                LAMBDA c : "chemical_data" \in DOMAIN c /\ c.chemical_data.category # <<>>)
  IN Unique([k \in DOMAIN with |-> with[k].chemical_data.category])

CategoryTerms(categories) ==
  Flatten([k \in DOMAIN categories |->
             << <<"di">> \o categories[k] \o <<"lei">>,
                <<"lei", "bie">> \o categories[k] >>])

\* a search by hazard category that runs whatever was found before
CategorySearchAlways(env, st, chemical_data) ==
  SearchTerms(env,
    Issued(st, "category",
           CategoryTerms(Take(SetOrder(Categories(chemical_data), env.seed), 2))),
    CategoryTerms(Take(SetOrder(Categories(chemical_data), env.seed), 2)), 2, FALSE)

\* "if not found_specific": the search by hazard category
CategorySearch(env, st, chemical_data) ==
  IF st.found THEN st
  ELSE SearchTerms(env,
         Issued(st, "category",
                CategoryTerms(Take(SetOrder(Categories(chemical_data), env.seed), 2))),
         CategoryTerms(Take(SetOrder(Categories(chemical_data), env.seed), 2)), 2, FALSE)

\* the loop state when the tiers have run
AssociationState(env, chemical_data) ==
  CategorySearch(env,
    AssociateAll(env, [related |-> <<>>, found |-> FALSE, issued |-> <<>>], chemical_data),
    chemical_data)

FindRelatedRegulations(env, chemical_data, query) ==
  Take(SortByScore(AssociationState(env, chemical_data).related), 3)

\* metadata id of a regulation hit, as _merge_regulations reads it
RegulationKey(reg) ==
  IF "id" \in DOMAIN reg.metadata THEN reg.metadata.id ELSE <<"hash_">> \o reg.content

\* first hit of each id is kept
RECURSIVE MergeRegsInto(_, _)
MergeRegsInto(merged, regs) ==
  IF regs = <<>> THEN merged
  ELSE IF \E k \in DOMAIN merged : RegulationKey(merged[k]) = RegulationKey(Head(regs))
    THEN MergeRegsInto(merged, Tail(regs))
  ELSE MergeRegsInto(Append(merged, Head(regs)), Tail(regs))

MergeRegulations(regulations1, regulations2) ==
  SortByScore(MergeRegsInto(<<>>, regulations1 \o regulations2))

(***************************************************************************)
(* Result assembly, fallback search and the entry point.                   *)
(***************************************************************************)
\* the dict returned by the except clauses and by an empty fallback
FailureResult(query) == [chemical_data |-> <<>>, regulations |-> <<>>, query |-> query]

\* the dict of the normal return
StructuredResult(query, chemical_data, all_regulations) ==
  [query |-> query,
   chemical_data |-> chemical_data,
   regulations |-> all_regulations,
   total_chemicals |-> Len(chemical_data),
   total_regulations |-> Len(all_regulations)]

\* _build_structured_result once the hits are separated by doc_type
BuildFrom(env, query, verbose, chemical_data, regulations) ==
  IF chemical_data # <<>> /\ Raises(env, verbose, "build") THEN FailureResult(query)
  ELSE StructuredResult(query, chemical_data,
         MergeRegulations(regulations, FindRelatedRegulations(env, chemical_data, query)))

BuildStructuredResult(env, basic_results, query, verbose) ==
  BuildFrom(env, query, verbose,
            SelectSeq(basic_results, LAMBDA r : r.metadata.doc_type = "chemical"),
            SelectSeq(basic_results, LAMBDA r : r.metadata.doc_type = "regulation"))

\* _fallback_search once the hybrid searches have answered
FallbackBuild(env, query, verbose, all_results) ==
  IF all_results = <<>> THEN FailureResult(query)
  ELSE BuildStructuredResult(env, all_results, query, verbose)

\* _fallback_search once the names are extracted
FallbackFor(env, query, top_k, verbose, chemical_names) ==
  IF chemical_names = <<>> THEN FailureResult(query)
  ELSE IF Raises(env, verbose, "fallback") THEN FailureResult(query)
  ELSE FallbackBuild(env, query, verbose,
         Flatten([k \in DOMAIN chemical_names |->
                    HybridSearch(env, chemical_names[k], top_k, FALSE)]))

FallbackSearch(env, query, top_k, verbose) ==
  FallbackFor(env, query, top_k, verbose, ExtractChemicalNames(query))

IsEmptyResult(r) == r.chemical_data = <<>> /\ r.regulations = <<>>

BasicSearch(env, query, strategy, top_k, verbose) ==
  IF strategy = "exact" THEN ExactSearch(env, query, top_k, verbose)
  ELSE IF strategy = "semantic" THEN SemanticSearch(env, query, top_k, verbose)
  ELSE IF strategy = "hybrid" THEN HybridSearch(env, query, top_k, verbose)
  ELSE AutoSearch(env, query, top_k, verbose)

\* what escapes from a function without an except clause
Escaped == [exception |-> "raised"]

\* an empty result always gives way to the fallback result
StructuredOrFallbackAlways(env, query, verbose, structured_result, fallback_result) ==
  IF ~IsEmptyResult(structured_result) THEN structured_result
  ELSE IF Raises(env, verbose, "retrieve_fallback") THEN FailureResult(query)
  ELSE fallback_result

\* "if not structured_result...": an empty result gives way to a fallback
\* result that is not empty
StructuredOrFallback(env, query, verbose, structured_result, fallback_result) ==
  IF ~IsEmptyResult(structured_result) THEN structured_result
  ELSE IF Raises(env, verbose, "retrieve_fallback") THEN FailureResult(query)
  ELSE IF ~IsEmptyResult(fallback_result) THEN fallback_result
  ELSE structured_result

\* retrieve where the failure of its first print is not caught
RetrieveUncaught(env, query, strategy, top_k, verbose) ==
  IF Raises(env, verbose, "retrieve") THEN Escaped
  ELSE StructuredOrFallback(env, query, verbose,
         BuildStructuredResult(env, BasicSearch(env, query, strategy, top_k, verbose),
                               query, verbose),
         FallbackSearch(env, query, top_k, verbose))

Retrieve(env, query, strategy, top_k, verbose) ==
  IF Raises(env, verbose, "retrieve") THEN FailureResult(query)
  ELSE StructuredOrFallback(env, query, verbose,
         BuildStructuredResult(env, BasicSearch(env, query, strategy, top_k, verbose),
                               query, verbose),
         FallbackSearch(env, query, top_k, verbose))

(***************************************************************************)
(* Bounds and inputs.                                                      *)
(***************************************************************************)
\* most rows in the structured store
MaxRows == 2

\* largest top_k of a call
MaxTopK == 3

\* most add_documents batches between two resets
MaxBatches == 2

\* length of the over-long query
LongQueryLen == 8

\* number of string hash seeds
HashSeeds == 2

\* most hits in the three lists given to the merge together
MaxHits == 4

\* the stores: the rows of Catalog that are present, in primary-key order
Stores ==
  {SelectSeqBy(Catalog, P) : P \in {Q \in SUBSET (DOMAIN Catalog) : Cardinality(Q) <= MaxRows}}

Queries ==
  { <<>>,
    <<"U", "N", "1", "1", "3", "3">>,
    <<"1", "1", "3", "3">>,
    <<"1", "1", "3", "3", "0">>,
    <<"U", "N", "9", "9", "9", "9", " ", "dian", "chi">>,
    <<"U", "N", "3", "4", "8", "0">>,
    <<"U", "N", "1", "1", "3", "3", " ", "U", "N", "1", "2", "0", "3">>,
    <<"!", "@">>,
    [i \in 1..LongQueryLen |-> "a"],
    <<"li", "dian", "chi", "an", "quan", "yun", "shu2">>,
    <<"qi2", "you2", "de", "wei", "xian", "xing">>,
    w_nianheji }

Strategies == {"exact", "semantic", "hybrid", "auto"}

\* the regulation corpus: the chunks of each section of the markdown file
MarkdownSections ==
  << << <<"1", "8", "8", " ", "li", "dian", "chi", "yun", "shu2", "gui", "ding">> >>,
     << <<"2", "4", "3", " ", "U", "N", "1", "2", "0", "3", " ", "qi2", "you2", "ran", "liao",
           " ", "nian", "he", "ji">> >>,
     << <<"lei", "bie", "3", " ", "nian", "he", "ji", " ", "yi", "ran", "ye", "ti",
           "bao1", "zhuang", "yao", "qiu">> >> >>

\* the conditions of one call: everything in order, the store or the index or
\* both failing, another hash seed, or verbose output with a print that
\* raises in one function
Normal == [store_ok |-> TRUE, index_ok |-> TRUE, seed |-> 0, verbose |-> FALSE, fault |-> "none"]

Conditions ==
  {Normal,
   [Normal EXCEPT !.store_ok = FALSE],
   [Normal EXCEPT !.index_ok = FALSE],
   [Normal EXCEPT !.store_ok = FALSE, !.index_ok = FALSE]}
  \cup {[Normal EXCEPT !.seed = sd] : sd \in 0..(HashSeeds - 1)}
  \cup {[Normal EXCEPT !.verbose = TRUE, !.fault = f] : f \in FaultSites}

(***************************************************************************)
(* State.                                                                  *)
(***************************************************************************)
VARIABLES
  rows,        \* the rows of the structured store
  index,       \* VectorHandler.index
  documents,   \* VectorHandler.documents
  metadata,    \* VectorHandler.metadata
  vectorizer,  \* VectorHandler.vectorizer
  batches,     \* add_documents batches since the index was last absent
  pc,          \* "idle", or "returned" after a retrieve call
  call,        \* the arguments and conditions of the last retrieve call
  result,      \* what the last retrieve call returned
  m_in,        \* the three hit lists given to the merge
  m_out,       \* the merges computed from them
  disk         \* the files index, metadata, documents and vectorizer

vars ==
  <<rows, index, documents, metadata, vectorizer, batches, pc, call, result, m_in, m_out, disk>>

handler == <<index, documents, metadata, vectorizer, batches>>

VH == [index |-> index, documents |-> documents, metadata |-> metadata,
       vectorizer |-> vectorizer]

Env(c) == [rows |-> rows, store_ok |-> c.store_ok, vh |-> VH, index_ok |-> c.index_ok,
           seed |-> c.seed, fault |-> c.fault]

None == <<>>

(***************************************************************************)
(* The four files of the handler.  A file is <<>> when it does not exist   *)
(* and <<content>> when it does.                                           *)
(***************************************************************************)
NoFiles == [index |-> <<>>, metadata |-> <<>>, documents |-> <<>>, vectorizer |-> <<>>]

\* _save_index of the handler vh when its first `written` writes are done:
\* the files are written in the order index, metadata, documents, vectorizer
SaveFiles(d, vh, written) ==
  [index |-> IF written >= 1 THEN <<vh.index.vectors>> ELSE d.index,
   metadata |-> IF written >= 2 THEN <<vh.metadata>> ELSE d.metadata,
   documents |-> IF written >= 3 THEN <<vh.documents>> ELSE d.documents,
   vectorizer |-> IF written >= 4 THEN <<vh.vectorizer>> ELSE d.vectorizer]

SaveIndex(d, vh) == SaveFiles(d, vh, 4)

\* the files that reset_collection removes
RemoveFiles(d) == [d EXCEPT !.index = <<>>, !.metadata = <<>>, !.documents = <<>>]

\* _load_or_create_index of a handler whose vectorizer is current: the four
\* files are loaded when all of them exist
LoadOrCreateIndex(d, current) ==
  IF d.index # <<>> /\ d.metadata # <<>> /\ d.documents # <<>> /\ d.vectorizer # <<>>
    THEN [index |-> [exists |-> TRUE, vectors |-> d.index[1]],
          documents |-> d.documents[1],
          metadata |-> d.metadata[1],
          vectorizer |-> d.vectorizer[1]]
    ELSE [index |-> NoIndex, documents |-> <<>>, metadata |-> <<>>, vectorizer |-> current]

\* HybridRetriever.__init__ on a machine without index files
Init ==
  /\ rows \in Stores
  /\ index = NoIndex
  /\ documents = <<>>
  /\ metadata = <<>>
  /\ vectorizer = UnfittedVectorizer
  /\ batches = 0
  /\ pc = "idle"
  /\ call = None
  /\ result = None
  /\ m_in = None
  /\ m_out = None
  /\ disk = NoFiles

Added(vh) ==
  /\ index' = vh.index
  /\ documents' = vh.documents
  /\ metadata' = vh.metadata
  /\ vectorizer' = vh.vectorizer
  /\ batches' = batches + 1
  /\ disk' = SaveIndex(disk, vh)

\* VectorHandler.import_mysql_data: one document per row whose text is not
\* empty, added in one batch
ImportMysqlData ==
  LET chemicals == SelectSeq(GetAllChemicals(rows, TRUE),
                             LAMBDA r : CreateChemicalDocument(r) # <<>>)
  IN /\ pc = "idle"
     /\ batches < MaxBatches
     /\ chemicals # <<>>
     /\ Added(AddDocumentsBatch(VH,
                [k \in DOMAIN chemicals |-> CreateChemicalDocument(chemicals[k])],
                [k \in DOMAIN chemicals |-> ChemicalMetadata(chemicals[k])]))
     /\ UNCHANGED <<rows, pc, call, result, m_in, m_out>>

\* the chunks of the markdown file with their section and chunk numbers
MarkdownChunks ==
  Flatten([i \in DOMAIN MarkdownSections |->
             [j \in DOMAIN MarkdownSections[i] |->
                [content |-> MarkdownSections[i][j], section_id |-> i - 1, chunk_id |-> j - 1]]])

\* VectorHandler.import_markdown_data
ImportMarkdownData ==
  /\ pc = "idle"
  /\ batches < MaxBatches
  /\ Added(AddDocumentsBatch(VH,
             [k \in DOMAIN MarkdownChunks |-> MarkdownChunks[k].content],
             [k \in DOMAIN MarkdownChunks |->
                RegulationMetadata(MarkdownChunks[k].section_id, MarkdownChunks[k].chunk_id)]))
  /\ UNCHANGED <<rows, pc, call, result, m_in, m_out>>

\* VectorHandler.reset_collection: the index, metadata and documents files
\* are removed and _load_or_create_index starts an absent index; the encoder
\* object is left as it is
ResetCollection ==
  /\ pc = "idle"
  /\ index.exists
  /\ index' = NoIndex
  /\ documents' = <<>>
  /\ metadata' = <<>>
  /\ batches' = 0
  /\ disk' = RemoveFiles(disk)
  /\ UNCHANGED <<rows, vectorizer, pc, call, result, m_in, m_out>>

\* HybridRetriever.retrieve
RetrieveCall ==
  /\ pc = "idle"
  /\ \E query \in Queries, strategy \in Strategies, top_k \in 1..MaxTopK, c \in Conditions :
       /\ call' = [query |-> query, strategy |-> strategy, top_k |-> top_k, conditions |-> c]
       /\ result' = Retrieve(Env(c), query, strategy, top_k, c.verbose)
  /\ pc' = "returned"
  /\ UNCHANGED <<rows, handler, m_in, m_out, disk>>

\* the caller takes the result
Return ==
  /\ pc = "returned"
  /\ pc' = "idle"
  /\ call' = None
  /\ result' = None
  /\ UNCHANGED <<rows, handler, m_in, m_out, disk>>

Next ==
  \/ ImportMysqlData
  \/ ImportMarkdownData
  \/ ResetCollection
  \/ RetrieveCall
  \/ Return

Spec == Init /\ [][Next]_vars

(***************************************************************************)
(* The handler and its files across process ends (specification SpecDisk): *)
(* imports, resets, an import whose save is cut short by the end of the    *)
(* process between two file writes, and the start of a new process, whose  *)
(* constructor loads the files.                                            *)
(***************************************************************************)
\* the batches that the two imports add
ImportBatches ==
  {[documents |-> [k \in DOMAIN MarkdownChunks |-> MarkdownChunks[k].content],
    metadatas |-> [k \in DOMAIN MarkdownChunks |->
                     RegulationMetadata(MarkdownChunks[k].section_id,
                                        MarkdownChunks[k].chunk_id)]]}
  \cup
  {[documents |-> [k \in DOMAIN chemicals |-> CreateChemicalDocument(chemicals[k])],
    metadatas |-> [k \in DOMAIN chemicals |-> ChemicalMetadata(chemicals[k])]] :
     chemicals \in {SelectSeq(GetAllChemicals(rows, TRUE),
                              LAMBDA r : CreateChemicalDocument(r) # <<>>)} \ {<<>>}}

\* the process is gone and its objects with it
ProcessEnds ==
  /\ index' = NoIndex
  /\ documents' = <<>>
  /\ metadata' = <<>>
  /\ vectorizer' = UnfittedVectorizer
  /\ pc' = "down"

\* _add_documents_batch of a process that ends inside _save_index, after
\* one, two or three of the four writes
InterruptedImport ==
  /\ pc = "idle"
  /\ batches < MaxBatches
  /\ \E b \in ImportBatches, written \in 1..3 :
       disk' = SaveFiles(disk, AddDocumentsBatch(VH, b.documents, b.metadatas), written)
  /\ batches' = batches + 1
  /\ ProcessEnds
  /\ UNCHANGED <<rows, call, result, m_in, m_out>>

\* the process ends between two operations
Exit ==
  /\ pc = "idle"
  /\ ProcessEnds
  /\ UNCHANGED <<rows, batches, call, result, m_in, m_out, disk>>

\* what VectorHandler.__init__ of a new process finds
Loaded == LoadOrCreateIndex(disk, UnfittedVectorizer)

\* VectorHandler.__init__ of a new process
Restart ==
  /\ pc = "down"
  /\ pc' = "idle"
  /\ index' = Loaded.index
  /\ documents' = Loaded.documents
  /\ metadata' = Loaded.metadata
  /\ vectorizer' = Loaded.vectorizer
  /\ batches' = IF Loaded.index.exists THEN batches ELSE 0
  /\ UNCHANGED <<rows, call, result, m_in, m_out, disk>>

NextDisk ==
  \/ ImportMysqlData
  \/ ImportMarkdownData
  \/ ResetCollection
  \/ InterruptedImport
  \/ Exit
  \/ Restart

SpecDisk == Init /\ [][NextDisk]_vars

(***************************************************************************)
(* The merge on its own: SpecMerge draws three hit lists from the hits the *)
(* two searches produce for the catalog and the regulation corpus, and     *)
(* applies _merge_results to them.                                         *)
(***************************************************************************)
ChemicalDocHit(r, score) ==
  SemanticHit(VectorResult(CreateChemicalDocument(r), ChemicalMetadata(r), score))

RegulationDocHit(k, score) ==
  SemanticHit(VectorResult(MarkdownChunks[k].content,
                RegulationMetadata(MarkdownChunks[k].section_id, MarkdownChunks[k].chunk_id),
                score))

HitUniverse ==
  { ExactHit(Catalog[1], "exact_un", 1000),
    ExactHit(Catalog[2], "exact_un", 1000),
    ChemicalDocHit(Catalog[1], 900),
    ChemicalDocHit(Catalog[2], 900),
    RegulationDocHit(1, 500),
    RegulationDocHit(1, 900) }

\* the triples of lists with at most MaxHits hits together
HitListTriples ==
  { <<Slice(s, 1, i), Slice(s, i + 1, j), Slice(s, j + 1, Len(s))>> :
      s \in UNION {[1..n -> HitUniverse] : n \in 0..MaxHits},
      i \in 0..MaxHits, j \in 0..MaxHits }

InitMerge ==
  /\ rows = <<>>
  /\ index = NoIndex
  /\ documents = <<>>
  /\ metadata = <<>>
  /\ vectorizer = UnfittedVectorizer
  /\ batches = 0
  /\ pc = "idle"
  /\ call = None
  /\ result = None
  /\ m_in \in {t \in HitListTriples : Len(t[1]) + Len(t[2]) + Len(t[3]) <= MaxHits}
  /\ m_out = None
  /\ disk = NoFiles

\* _merge_results applied to the lists A = m_in[1], B = m_in[2], C = m_in[3]
MergeCall ==
  /\ m_out = None
  /\ m_out' = [ab |-> MergeResults(m_in[1], m_in[2]),
               ab_c |-> MergeResults(MergeResults(m_in[1], m_in[2]), m_in[3]),
               a_bc |-> MergeResults(m_in[1], MergeResults(m_in[2], m_in[3])),
               aa |-> MergeResults(m_in[1], m_in[1]),
               a |-> MergeResults(m_in[1], <<>>)]
  /\ UNCHANGED <<rows, handler, pc, call, result, m_in, disk>>

NextMerge == MergeCall

SpecMerge == InitMerge /\ [][NextMerge]_vars

(***************************************************************************)
(* Properties of retrieve (specification Spec).                            *)
(***************************************************************************)
Returned == pc = "returned"

CallEnv == Env(call.conditions)

ResultFields == {"query", "chemical_data", "regulations", "total_chemicals", "total_regulations"}

\* C1: every retrieve call, for every query, strategy and top_k and whatever
\* fails during the call (the store, the index, a print), returns a result
\* instead of raising, and the result's query field is the query given.
C1_RetrieveNeverRaises ==
  Returned =>
    /\ result # Escaped
    /\ {"query", "chemical_data", "regulations"} \subseteq DOMAIN result
    /\ result.query = call.query

\* a call with the over-long query during which the store and the index both
\* failed has returned
C1_Witness ==
  /\ Returned
  /\ Len(call.query) = LongQueryLen
  /\ ~call.conditions.store_ok
  /\ ~call.conditions.index_ok
  /\ result.query = call.query

\* C2: every value retrieve returns carries query, chemical_data,
\* regulations, total_chemicals and total_regulations, and the two totals
\* are the lengths of the two lists, on every path.
C2_WellFormedResult ==
  Returned =>
    /\ ResultFields \subseteq DOMAIN result
    /\ result.total_chemicals = Len(result.chemical_data)
    /\ result.total_regulations = Len(result.regulations)

\* the identifier tokens as the specification describes them: a maximal run
\* of four or more digits that ends at a word boundary and either starts at
\* one or follows "UN" and optional whitespace
DigitRuns(q) ==
  {r \in (DOMAIN q) \X (DOMAIN q) :
     /\ r[1] <= r[2]
     /\ \A k \in r[1]..r[2] : IsDigit(q[k])
     /\ (r[1] = 1 \/ ~IsDigit(q[r[1] - 1]))
     /\ (r[2] = Len(q) \/ ~IsDigit(q[r[2] + 1]))}

FollowsUN(q, i) ==
  \E u \in 1..(i - 2) :
    /\ q[u] \in {"U", "u"}
    /\ q[u + 1] \in {"N", "n"}
    /\ \A k \in (u + 2)..(i - 1) : IsSpace(q[k])
    /\ WordBoundary(q, u)

SpecIdentifiers(q) ==
  {ParseInt(SubSeq(q, r[1], r[2])) :
     r \in {t \in DigitRuns(q) :
              /\ t[2] - t[1] + 1 >= 4
              /\ WordBoundary(q, t[2] + 1)
              /\ (WordBoundary(q, t[1]) \/ FollowsUN(q, t[1]))}}

\* C3: for a query that contains a well-formed identifier token and for
\* every store, the classifier answers the identifier class and every hit of
\* the exact search is a record whose identifier is one of the query's.
C3_IdentifierQueries ==
  (Returned /\ call.conditions.fault = "none" /\ SpecIdentifiers(call.query) # {}) =>
    /\ DetectQueryType(call.query) = "un_number"
    /\ \A h \in Range(ExactSearch(CallEnv, call.query, call.top_k, FALSE)) :
         h.chemical_data.un_number \in SpecIdentifiers(call.query)

\* the rows stored under the identifiers of the query, in extraction order
\* and, for one identifier, in store order
StoredUnder(q) ==
  LET ids == FindAllIdentifiers(q)
  IN Flatten([k \in DOMAIN ids |->
                SelectSeq(rows, LAMBDA r : IntToStr(r.un_number) = ids[k])])

ExactCall == Returned /\ call.strategy = "exact" /\ call.conditions = Normal

\* C4 as stated: with strategy exact, every row stored under an identifier
\* of the query is returned with score 1.0, for every top_k, also one smaller
\* than the number of packaging-group variants.
C4_AllVariantsReturned ==
  ExactCall =>
    \A k \in DOMAIN StoredUnder(call.query) :
      \E h \in Range(result.chemical_data) :
        h.chemical_data = StoredUnder(call.query)[k] /\ h.score = 1000

\* C4 as amended: with strategy exact, when rows are stored under the
\* identifiers of the query, the hits are the first top_k of those rows,
\* in extraction order then store order, each with score 1.0; nothing is
\* dropped when there are at most top_k of them.
C4_FirstTopKVariants ==
  (ExactCall /\ StoredUnder(call.query) # <<>>) =>
    /\ Len(result.chemical_data) = Min(call.top_k, Len(StoredUnder(call.query)))
    /\ \A k \in DOMAIN result.chemical_data :
         /\ result.chemical_data[k].chemical_data = StoredUnder(call.query)[k]
         /\ result.chemical_data[k].score = 1000

\* an exact call whose identifier has two packaging-group variants in the
\* store, with top_k = 1: one variant is returned
C4_Witness ==
  /\ ExactCall
  /\ call.query = <<"U", "N", "1", "1", "3", "3">>
  /\ Len(StoredUnder(call.query)) = 2
  /\ call.top_k = 1
  /\ Len(result.chemical_data) = 1

\* C5: for the empty query with strategy auto, whatever the store and the
\* index hold, the class is natural_language, the semantic search and the
\* exact top-up find nothing, and both totals of the result are 0.
C5_EmptyQueryEmptyResult ==
  (Returned /\ call.query = <<>> /\ call.strategy = "auto" /\ call.conditions = Normal) =>
    /\ DetectQueryType(call.query) = "natural_language"
    /\ SemanticSearch(CallEnv, call.query, call.top_k, FALSE) = <<>>
    /\ ExactSearch(CallEnv, call.query, call.top_k, FALSE) = <<>>
    /\ result.total_chemicals = 0
    /\ result.total_regulations = 0

(***************************************************************************)
(* Properties of the merge (specification SpecMerge).                      *)
(***************************************************************************)
Merged == m_out # None

\* the hits given to Merge(A, B), in the order the merge reads them
AB == m_in[1] \o m_in[2]

KeysOf(hits) == {MergeKey(h) : h \in Range(hits)}

\* identifier and packaging group of a chemical hit: from the record of an
\* exact hit, from the document metadata of a semantic hit
HitIdentifier(h) ==
  IF "chemical_data" \in DOMAIN h THEN IntToStr(h.chemical_data.un_number)
  ELSE h.metadata.un_number

HitPackaging(h) ==
  IF "chemical_data" \in DOMAIN h THEN h.chemical_data.packaging_group
  ELSE h.metadata.packaging_group

IsChemical(h) == h.metadata.doc_type = "chemical"

IsRegulation(h) == h.metadata.doc_type = "regulation"

\* C6: two chemical hits of the inputs with the same identifier and different
\* packaging groups are both in the output of the merge, whether the exact
\* search or the semantic search produced them.
C6_PackagingVariantsSurvive ==
  Merged =>
    \A g, h \in Range(AB) :
      (/\ IsChemical(g) /\ IsChemical(h)
       /\ HitIdentifier(g) = HitIdentifier(h)
       /\ HitPackaging(g) # HitPackaging(h))
      => (g \in Range(m_out.ab) /\ h \in Range(m_out.ab))

FirstWhere(s, P(_)) == CHOOSE i \in DOMAIN s : P(s[i]) /\ \A j \in 1..(i - 1) : ~P(s[j])

\* position at which a hit is first seen in the inputs
FirstSeen(h) == FirstWhere(AB, LAMBDA x : x = h)

\* position at which the key of a hit is first seen in the inputs
KeyFirstSeen(h) == FirstWhere(AB, LAMBDA x : MergeKey(x) = MergeKey(h))

\* one hit per key of the inputs, with the largest score of the key, in
\* non-increasing score order
OnePerKeyMaxSorted(out) ==
  /\ KeysOf(out) = KeysOf(AB)
  /\ Len(out) = Cardinality(KeysOf(AB))
  /\ \A k \in DOMAIN out :
       /\ out[k] \in Range(AB)
       /\ \A h \in Range(AB) : MergeKey(h) = MergeKey(out[k]) => h.score <= out[k].score
  /\ \A i, j \in DOMAIN out : i < j => out[i].score >= out[j].score

\* C7 as stated: one hit per key, the largest score of the key, non-increasing
\* scores, and hits of equal score in the order in which they were first seen.
C7_EqualScoresInHitOrder ==
  Merged =>
    /\ OnePerKeyMaxSorted(m_out.ab)
    /\ \A i, j \in DOMAIN m_out.ab :
         (i < j /\ m_out.ab[i].score = m_out.ab[j].score)
         => FirstSeen(m_out.ab[i]) < FirstSeen(m_out.ab[j])

\* C7 as amended: one hit per key, the largest score of the key,
\* non-increasing scores, and hits of equal score in the order in which
\* their keys were first seen (a hit that replaced a lower-scored hit of its
\* key stands where that hit stood).
C7_EqualScoresInKeyOrder ==
  Merged =>
    /\ OnePerKeyMaxSorted(m_out.ab)
    /\ \A i, j \in DOMAIN m_out.ab :
         (i < j /\ m_out.ab[i].score = m_out.ab[j].score)
         => KeyFirstSeen(m_out.ab[i]) < KeyFirstSeen(m_out.ab[j])

\* a merge in which a later hit replaced a lower-scored hit of its key and
\* ties in the output with a hit of another key seen in between
C7_Witness ==
  /\ Merged
  /\ \E i, j \in DOMAIN m_out.ab :
       /\ i < j
       /\ m_out.ab[i].score = m_out.ab[j].score
       /\ FirstSeen(m_out.ab[i]) > FirstSeen(m_out.ab[j])

\* C8: merging a list with itself gives the keys of the list, one hit per
\* key, and each key the score it has when the list is merged with the
\* empty list.
C8_MergeIdempotent ==
  Merged =>
    /\ KeysOf(m_out.aa) = KeysOf(m_in[1])
    /\ Len(m_out.aa) = Cardinality(KeysOf(m_in[1]))
    /\ {<<MergeKey(h), h.score>> : h \in Range(m_out.aa)}
         = {<<MergeKey(h), h.score>> : h \in Range(m_out.a)}

\* a list in which one key occurs with two scores was merged with itself
C8_Witness ==
  /\ Merged
  /\ \E g, h \in Range(m_in[1]) : MergeKey(g) = MergeKey(h) /\ g.score # h.score
  /\ Len(m_out.aa) < Len(m_in[1])

\* C9 as stated: Merge(Merge(A, B), C) and Merge(A, Merge(B, C)) are the same
\* list, equal scores included.
C9_MergeAssociative == Merged => m_out.ab_c = m_out.a_bc

\* C9 as amended: the two groupings give the same hits with the same scores,
\* and the same score at every position; they can differ only in the order
\* of hits of different keys that have equal scores.
C9_MergeAssociativeUpToTies ==
  Merged =>
    /\ Range(m_out.ab_c) = Range(m_out.a_bc)
    /\ Len(m_out.ab_c) = Len(m_out.a_bc)
    /\ \A k \in DOMAIN m_out.ab_c : m_out.ab_c[k].score = m_out.a_bc[k].score
    /\ (\A i, j \in DOMAIN m_out.ab_c : i # j => m_out.ab_c[i].score # m_out.ab_c[j].score)
         => m_out.ab_c = m_out.a_bc

\* three non-empty lists whose two groupings order two equal-score hits
\* differently
C9_Witness ==
  /\ Merged
  /\ \A k \in 1..3 : m_in[k] # <<>>
  /\ m_out.ab_c # m_out.a_bc
  /\ Range(m_out.ab_c) = Range(m_out.a_bc)

\* C10: a chemical hit and a regulation hit given to the merge never have
\* the same key, so each input hit has a hit of its own document type and
\* key in the output.
C10_TypesNeverConflated ==
  Merged =>
    /\ \A g, h \in Range(AB) : (IsChemical(g) /\ IsRegulation(h)) => MergeKey(g) # MergeKey(h)
    /\ \A h \in Range(AB) :
         \E o \in Range(m_out.ab) :
           MergeKey(o) = MergeKey(h) /\ o.metadata.doc_type = h.metadata.doc_type

\* a merge of semantic hits of both document types, both kept
C10_Witness ==
  /\ Merged
  /\ \E g, h \in Range(AB) :
       /\ IsChemical(g) /\ "chemical_data" \notin DOMAIN g
       /\ IsRegulation(h)
       /\ g \in Range(m_out.ab)
       /\ \E o \in Range(m_out.ab) : IsRegulation(o)

(***************************************************************************)
(* Properties of the searches inside retrieve (specification Spec).        *)
(***************************************************************************)
\* a call during which no print raised
NoFault == Returned /\ call.conditions.fault = "none"

\* what _hybrid_search returns for the arguments of the call
HybridOfCall == HybridSearch(CallEnv, call.query, call.top_k, FALSE)

\* C11: the list Hybrid Search returns has no two chemical hits with the same
\* identifier and packaging group, whichever search found them, and no two
\* other hits with the same stored document id.
C11_HybridDeduplicated ==
  (NoFault /\ call.strategy = "hybrid") =>
    \A i, j \in DOMAIN HybridOfCall :
      i < j =>
        /\ (IsChemical(HybridOfCall[i]) /\ IsChemical(HybridOfCall[j]))
             => <<HitIdentifier(HybridOfCall[i]), HitPackaging(HybridOfCall[i])>>
                  # <<HitIdentifier(HybridOfCall[j]), HitPackaging(HybridOfCall[j])>>
        /\ (~IsChemical(HybridOfCall[i]) /\ ~IsChemical(HybridOfCall[j]))
             => HybridOfCall[i].metadata.id # HybridOfCall[j].metadata.id

\* what _auto_search returns for the arguments of the call
AutoOfCall == AutoSearch(CallEnv, call.query, call.top_k, FALSE)

\* what _semantic_search returns for the arguments of the call
SemanticOfCall == SemanticSearch(CallEnv, call.query, call.top_k, FALSE)

\* C12: Auto Search returns the result of Exact Search for a query of the
\* identifier class and the result of Hybrid Search for a query of the name
\* class; for a natural-language query it returns the semantic hits when
\* there are top_k of them, and otherwise the first top_k of their merge with
\* the Exact Search hits for the cap top_k minus the number of semantic hits;
\* it never returns more than top_k hits.
C12_AutoDispatch ==
  (NoFault /\ call.strategy = "auto") =>
    /\ Len(AutoOfCall) <= call.top_k
    /\ DetectQueryType(call.query) = "un_number"
         => AutoOfCall = ExactSearch(CallEnv, call.query, call.top_k, FALSE)
    /\ DetectQueryType(call.query) = "name_search" => AutoOfCall = HybridOfCall
    /\ (DetectQueryType(call.query) = "natural_language" /\ Len(SemanticOfCall) >= call.top_k)
         => AutoOfCall = SemanticOfCall
    /\ (DetectQueryType(call.query) = "natural_language" /\ Len(SemanticOfCall) < call.top_k)
         => AutoOfCall =
              Take(MergeResults(SemanticOfCall,
                     ExactSearch(CallEnv, call.query, call.top_k - Len(SemanticOfCall), FALSE)),
                   call.top_k)

\* a natural-language call whose semantic hits were fewer than top_k and were
\* topped up by hits of the exact search
C12_Witness ==
  /\ NoFault
  /\ call.strategy = "auto"
  /\ DetectQueryType(call.query) = "natural_language"
  /\ Len(SemanticOfCall) > 0
  /\ Len(SemanticOfCall) < call.top_k
  /\ ExactSearch(CallEnv, call.query, call.top_k - Len(SemanticOfCall), FALSE) # <<>>
  /\ Len(AutoOfCall) > Len(SemanticOfCall)

\* C13: a semantic search on a handler whose vectorizer has never been trained
\* ends in an error, an outcome that is not the empty hit list.
C13_UntrainedSearchFails ==
  (NoFault /\ call.strategy = "semantic" /\ ~vectorizer.is_fitted) =>
    /\ VectorSemanticSearch(VH, TRUE, call.query, call.top_k) # <<>>
    /\ SemanticOfCall # <<>>

\* the hits of the dispatched search that retrieve hands to the regulation
\* association
AssocInput ==
  SelectSeq(BasicSearch(CallEnv, call.query, call.strategy, call.top_k, FALSE),
            LAMBDA r : r.metadata.doc_type = "chemical")

\* what _find_related_regulations returns for them
AssocOfCall == FindRelatedRegulations(CallEnv, AssocInput, call.query)

\* the records among hits
RecordsOf(hits) ==
  {hits[k].chemical_data : k \in {i \in DOMAIN hits : "chemical_data" \in DOMAIN hits[i]}}

\* the regulation passages that the index returns for one of the terms
RegulationHits(terms, top_k) ==
  UNION {{h \in Range(VectorSemanticSearch(CallEnv.vh, CallEnv.index_ok, t, top_k)) :
            h.metadata.source = "appendix_a"} : t \in terms}

\* the numeric special provisions of the records
ProvisionTerms(records) ==
  UNION {{t \in Range(Split(info.special_provisions)) : IsDigitStr(t)} : info \in records}

\* the terms of the identifier and name-keyword searches of the records
OtherSpecificTerms(records) ==
  {IntToStr(info.un_number) : info \in {i \in records : i.un_number # 0}}
    \cup UNION {Range(Take(SpecificTerms(info.chinese_name), 3)) : info \in records}

\* the terms of the search by hazard category of the records
AllCategoryTerms(records) ==
  UNION {{<<"di">> \o info.category \o <<"lei">>, <<"lei", "bie">> \o info.category} :
           info \in {i \in records : i.category # <<>>}}

\* hits that only the search by hazard category can produce
CategoryOnlyHits(records) ==
  RegulationHits(AllCategoryTerms(records), 2)
    \ (RegulationHits(ProvisionTerms(records), 5)
         \cup RegulationHits(OtherSpecificTerms(records), 3))

\* C14: when the search for some numeric special provision of a record finds
\* a regulation passage, the regulation association returns no hit that only
\* the search by hazard category finds.
C14_ProvisionHitsSkipCategoryTier ==
  (NoFault /\ RegulationHits(ProvisionTerms(RecordsOf(AssocInput)), 5) # {}) =>
    Range(AssocOfCall) \cap CategoryOnlyHits(RecordsOf(AssocInput)) = {}

\* a call where a special provision found a passage, the association returned
\* passages, and the hazard category would have found a further one
C14_Witness ==
  /\ NoFault
  /\ RegulationHits(ProvisionTerms(RecordsOf(AssocInput)), 5) # {}
  /\ CategoryOnlyHits(RecordsOf(AssocInput)) # {}
  /\ AssocOfCall # <<>>
  /\ Range(AssocOfCall) \subseteq Range(result.regulations)

\* the regulation hits of the dispatched search
DispatchedRegulations ==
  SelectSeq(BasicSearch(CallEnv, call.query, call.strategy, call.top_k, FALSE),
            LAMBDA r : r.metadata.doc_type = "regulation")

\* the hits that _merge_regulations receives
RegulationCandidates == Range(DispatchedRegulations) \cup Range(AssocOfCall)

\* C15: the regulation bucket built from the hits of the dispatched search
\* and the output of the regulation association has at most one hit per
\* stored id, and the hit kept for an id has the highest score of the hits
\* with that id.
C15_RegulationsKeepHigherScore ==
  (NoFault /\ AssocInput # <<>>) =>
    /\ \A i, j \in DOMAIN result.regulations :
         i # j => result.regulations[i].metadata.id # result.regulations[j].metadata.id
    /\ \A i \in DOMAIN result.regulations :
         \A c \in RegulationCandidates :
           c.metadata.id = result.regulations[i].metadata.id
             => c.score <= result.regulations[i].score

\* C16: in the result of retrieve every hit of chemical_data has doc_type
\* chemical, every hit of regulations has doc_type regulation, those added by
\* the regulation association included, and every hit that carries a record
\* (chemical_data) has doc_type chemical.
C16_BucketsMatchDocType ==
  Returned =>
    /\ \A i \in DOMAIN result.chemical_data :
         result.chemical_data[i].metadata.doc_type = "chemical"
    /\ \A i \in DOMAIN result.regulations :
         /\ result.regulations[i].metadata.doc_type = "regulation"
         /\ "chemical_data" \notin DOMAIN result.regulations[i]
    /\ \A i \in DOMAIN AssocOfCall : AssocOfCall[i].metadata.doc_type = "regulation"

\* an exact search, which finds records only, whose result has regulations:
\* all of them come from the regulation association
C16_Witness ==
  /\ NoFault
  /\ call.strategy = "exact"
  /\ \E i \in DOMAIN result.chemical_data : "chemical_data" \in DOMAIN result.chemical_data[i]
  /\ result.regulations # <<>>
  /\ Range(result.regulations) \subseteq Range(AssocOfCall)
  /\ \E k \in DOMAIN metadata : metadata[k].doc_type = "chemical"

\* the result assembled from the dispatched search of the call
AssembledOfCall ==
  BuildStructuredResult(CallEnv,
    BasicSearch(CallEnv, call.query, call.strategy, call.top_k, FALSE), call.query, FALSE)

\* what _fallback_search returns for the arguments of the call
FallbackOfCall == FallbackSearch(CallEnv, call.query, call.top_k, FALSE)

\* the result of retrieve, given the assembled result and what the fallback
\* returns when it is invoked
ReplacedOnlyWhenEmpty(res, assembled, fallback) ==
  /\ ~IsEmptyResult(assembled) => res = assembled
  /\ (IsEmptyResult(assembled) /\ ~IsEmptyResult(fallback)) => res = fallback
  /\ (IsEmptyResult(assembled) /\ IsEmptyResult(fallback)) => res = assembled

\* C17: retrieve returns the assembled result unless both of its buckets are
\* empty; then it returns the result of the fallback if that has a hit, and
\* the empty assembled result otherwise.
C17_FallbackOnlyWhenEmpty ==
  NoFault => ReplacedOnlyWhenEmpty(result, AssembledOfCall, FallbackOfCall)

\* a call whose dispatched search found nothing and whose fallback found hits
C17_Witness ==
  /\ NoFault
  /\ IsEmptyResult(AssembledOfCall)
  /\ ~IsEmptyResult(FallbackOfCall)
  /\ result = FallbackOfCall

\* the two searches that _hybrid_search runs for the arguments of the call
HybridExact == ExactSearch(CallEnv, call.query, (call.top_k \div 2) + 1, FALSE)

HybridSemantic == SemanticSearch(CallEnv, call.query, (call.top_k \div 2) + 1, FALSE)

\* every hit of hits is in the list merged or gave way there to a hit of its
\* key with at least its score
Represented(hits, merged) ==
  \A i \in DOMAIN hits :
    \E j \in DOMAIN merged :
      /\ MergeKey(merged[j]) = MergeKey(hits[i])
      /\ merged[j].score >= hits[i].score
      /\ merged[j] \in Range(hits)

SameEncoder ==
  index.exists =>
    /\ vectorizer.is_fitted
    /\ Len(index.vectors) = Len(documents)
    /\ \A k \in DOMAIN documents :
         index.vectors[k] = Normalized(Transform(vectorizer, documents[k]))

\* the encoder changes only in a step that creates the index, and is then
\* fitted on the documents of that step
FitOnlyOnEmptyIndex ==
  /\ vectorizer' # vectorizer => (~index.exists /\ index'.exists)
  /\ (~index.exists /\ index'.exists) => vectorizer' = Fit(documents')
  /\ index.exists => vectorizer' = vectorizer

\* C19: the encoder is fitted only by an add_documents call that finds no
\* index (after construction or after a reset), on the documents of that
\* call; every other step leaves it as it is, so that all vectors of the
\* index and the query vectors come from the same fitted encoder.
C19_EncoderFittedOnce == [](SameEncoder) /\ [][FitOnlyOnEmptyIndex]_vars

\* an index filled by two calls, whose encoder is the one fitted on the
\* documents of the first call and not one fitted on all documents
C19_Witness ==
  /\ batches = 2
  /\ index.exists
  /\ \E n \in 1..(Len(documents) - 1) : vectorizer = Fit(SubSeq(documents, 1, n))
  /\ vectorizer # Fit(documents)
  /\ SameEncoder

\* s is the beginning of t
StartsWith(t, s) == Len(s) <= Len(t) /\ SubSeq(t, 1, Len(s)) = s

\* the stored documents, their metadata and their vectors keep their content
\* and position
StoredKept ==
  /\ StartsWith(documents', documents)
  /\ StartsWith(metadata', metadata)
  /\ StartsWith(index'.vectors, index.vectors)

\* nothing is stored
Emptied ==
  /\ ~index'.exists
  /\ index'.vectors = <<>>
  /\ documents' = <<>>
  /\ metadata' = <<>>

\* a step keeps what is stored or removes all of it, removes only by a reset
\* (the only step that leaves no index behind), and changes nothing when it
\* is a search
AppendOrReset ==
  /\ StoredKept \/ Emptied
  /\ index'.exists => StoredKept
  /\ pc' = "returned" => UNCHANGED handler

\* without an index the document count is 0 and no search returns a hit
NoIndexNoHits ==
  ~index.exists =>
    /\ Len(documents) = 0
    /\ Len(metadata) = 0
    /\ \A query \in Queries, top_k \in 1..MaxTopK :
         VectorSemanticSearch(VH, TRUE, query, top_k) = <<>>

\* C20: the semantic index is append-only.  An add leaves the content, the
\* metadata and the position of every stored document unchanged and appends
\* the new ones, a search changes nothing, and only a reset removes
\* documents, all of them: after it the count is 0 and every search returns
\* no hit until the next add.
C20_AppendOnlyUntilReset == [](NoIndexNoHits) /\ [][AppendOrReset]_vars

\* the index after a reset that followed an add: the encoder is still the
\* fitted one, nothing is stored
C20_Witness ==
  /\ pc = "idle"
  /\ ~index.exists
  /\ vectorizer.is_fitted
  /\ documents = <<>>
  /\ batches = 0

(* Properties of the classifier and of the searches (specification Spec). *)
\* the query of the call has a token that the identifier pattern extracts
HasIdentifierToken == FindAllIdentifiers(call.query) # <<>>

\* the query of the call contains one of the chemical-domain nouns
HasDomainNoun == \E w \in Range(chemical_keywords) : Contains(call.query, w)

AssocState == AssociationState(CallEnv, AssocInput)

Tiers == <<"provision", "identifier", "name", "category">>

\* the cap that a tier passes to the semantic search
TierTopK(tier) ==
  IF tier = "provision" THEN 5 ELSE IF tier = "category" THEN 2 ELSE 3

\* the regulation passages that one search of the call returned
IssuedHits(e) == RegulationHits({e.term}, TierTopK(e.tier))

\* the regulation passages that the searches of a tier returned
TierHits(issued, tier) ==
  UNION {IssuedHits(issued[k]) : k \in {i \in DOMAIN issued : issued[i].tier = tier}}

\* the tiers whose searches returned a passage, as positions in Tiers
YieldingTiers(issued) == {t \in DOMAIN Tiers : TierHits(issued, Tiers[t]) # {}}

\* the passages of the first of the tiers yielding
FirstTierHits(issued, yielding) ==
  TierHits(issued, Tiers[CHOOSE t \in yielding : \A u \in yielding : t <= u])

OneTierOnly(issued, returned) ==
  YieldingTiers(issued) # {} =>
    Range(returned) \subseteq FirstTierHits(issued, YieldingTiers(issued))

\* C25: every passage that the regulation association returns was found by
\* one tier, the first in the order provision number, identifier, name
\* keyword, category whose searches found a passage in the call.
C25_OneTierOnly == NoFault => OneTierOnly(AssocState.issued, AssocOfCall)

\* no search for name keywords or by category follows a search for a
\* special provision that returned a passage
ShortCircuit(issued) ==
  \A k \in DOMAIN issued :
    (issued[k].tier = "provision" /\ IssuedHits(issued[k]) # {}) =>
      \A j \in DOMAIN issued : j > k => issued[j].tier \notin {"name", "category"}

\* C26: once the search for a numeric special provision of some chemical has
\* found a passage, the regulation association makes no name-keyword search
\* and no category search in the rest of the call, for any chemical.
C26_ShortCircuitIsGlobal == NoFault => ShortCircuit(AssocState.issued)

\* a provision search of the first chemical returned a passage and a
\* provision search for a later chemical followed
ProvisionThenProvision(issued) ==
  \E k \in DOMAIN issued :
    /\ issued[k].tier = "provision"
    /\ IssuedHits(issued[k]) # {}
    /\ \E j \in DOMAIN issued : j > k /\ issued[j].tier = "provision"

\* a call with two chemicals where a provision search of the first found a
\* passage and the second has a name with keywords and a category
C26_Witness ==
  /\ NoFault
  /\ Len(AssocInput) >= 2
  /\ "chemical_data" \in DOMAIN AssocInput[2]
  /\ SpecificTerms(AssocInput[2].chemical_data.chinese_name) # <<>>
  /\ AssocInput[2].chemical_data.category # <<>>
  /\ ProvisionThenProvision(AssocState.issued)
  /\ AssocOfCall # <<>>

\* C27: no two passages of the list that the regulation association returns
\* have the same stored id.
C27_AssociationDeduplicated ==
  NoFault =>
    \A i, j \in DOMAIN AssocOfCall :
      i < j => AssocOfCall[i].metadata.id # AssocOfCall[j].metadata.id

\* C28: for every strategy, query and top_k the chemical_data bucket of the
\* result of retrieve has at most top_k hits, also when the result comes
\* from the fallback search over several extracted names.
C28_ChemicalBucketCapped ==
  Returned => Len(result.chemical_data) <= call.top_k

\* top_k / 2 rounded up
CeilHalf(top_k) == (top_k + 1) \div 2

\* C24: the hybrid search runs the exact search and the semantic search each
\* with the cap ceil(top_k / 2) + 1, merges the two lists and returns the
\* first top_k hits of the merge.
C24_HybridCapsRoundedUp ==
  (NoFault /\ call.strategy = "hybrid") =>
    /\ Len(HybridOfCall) <= call.top_k
    /\ HybridOfCall =
         Take(MergeResults(
                ExactSearch(CallEnv, call.query, CeilHalf(call.top_k) + 1, FALSE),
                SemanticSearch(CallEnv, call.query, CeilHalf(call.top_k) + 1, FALSE)),
              call.top_k)

\* what _exact_search returns for the arguments of the call
ExactOfCall == ExactSearch(CallEnv, call.query, call.top_k, FALSE)

\* the place in the query of the first identifier that is the number of the
\* record of hit h
ExtractionPlace(ids, h) ==
  CHOOSE k \in DOMAIN ids :
    /\ ParseInt(ids[k]) = h.chemical_data.un_number
    /\ \A u \in 1..(k - 1) : ParseInt(ids[u]) # h.chemical_data.un_number

\* the place in the store of the record of hit h
StorePlace(h) == CHOOSE k \in DOMAIN rows : rows[k] = h.chemical_data

\* identifier hits score 1.0 and follow the extraction order, name hits
\* score 0.9 and follow the order of the store, and no name hit precedes an
\* identifier hit
ExactOrdering(hits, ids) ==
  /\ \A i \in DOMAIN hits :
       \/ /\ hits[i].metadata.search_type = "exact_un"
          /\ hits[i].score = 1000
          /\ \E k \in DOMAIN ids : ParseInt(ids[k]) = hits[i].chemical_data.un_number
       \/ /\ hits[i].metadata.search_type = "exact_name"
          /\ hits[i].score = 900
  /\ \A i, j \in DOMAIN hits :
       i < j =>
         /\ ~(hits[i].score = 900 /\ hits[j].score = 1000)
         /\ (hits[i].score = 1000 /\ hits[j].score = 1000)
              => ExtractionPlace(ids, hits[i]) <= ExtractionPlace(ids, hits[j])
         /\ (hits[i].score = 900 /\ hits[j].score = 900)
              => StorePlace(hits[i]) <= StorePlace(hits[j])

\* C23: the exact search returns at most top_k hits; the hits of the
\* identifier lookups have score 1.0 and come first, in the order in which
\* the identifiers are extracted from the query; the hits of the name
\* search have score 0.9 and come after them, in the order in which the
\* store returns them.
C23_ExactOrdering ==
  (NoFault /\ call.strategy = "exact") =>
    /\ Len(ExactOfCall) <= call.top_k
    /\ ExactOrdering(ExactOfCall, FindAllIdentifiers(call.query))

\* an exact search that returned the records of two identifiers of the query
C23_Witness ==
  /\ NoFault
  /\ call.strategy = "exact"
  /\ Len(FindAllIdentifiers(call.query)) = 2
  /\ Len(ExactOfCall) = 2
  /\ ExactOfCall[1].chemical_data.un_number # ExactOfCall[2].chemical_data.un_number
  /\ ExactOfCall[1].score = 1000
  /\ Range(ExactOfCall) \subseteq Range(result.chemical_data)

(* Properties of the semantic index, continued (specification Spec). *)
\* a search for the content of the k-th stored document returns that
\* document first, with a score of at least 0.99
FoundFirst(k, top_k) ==
  /\ VectorSemanticSearch(VH, TRUE, documents[k], top_k) # <<>>
  /\ VectorSemanticSearch(VH, TRUE, documents[k], top_k)[1].content = documents[k]
  /\ VectorSemanticSearch(VH, TRUE, documents[k], top_k)[1].metadata = metadata[k]
  /\ VectorSemanticSearch(VH, TRUE, documents[k], top_k)[1].score >= 990

\* C21: whatever documents the index was built from, in one batch or in
\* several, a search whose query is the content of a stored document returns
\* that document as the top hit with a score of at least 0.99.
C21_RoundTrip ==
  index.exists => \A k \in DOMAIN documents, top_k \in 1..MaxTopK : FoundFirst(k, top_k)

(* Properties of the persisted index (specification SpecDisk). *)
\* the documents of the imports
CorpusDocuments == UNION {Range(b.documents) : b \in ImportBatches}

\* every vector is the normalized transform of a document by the encoder
EncodedBy(vectors, encoder) ==
  \A k \in DOMAIN vectors :
    \E d \in CorpusDocuments : vectors[k] = Normalized(Transform(encoder, d))

\* C29: whenever a new process loads a persisted index, the encoder that it
\* loads is the one that encoded the vectors of that index, also after a
\* save that was cut short between two of its file writes.
C29_LoadedEncoderMatchesIndex ==
  [][(pc = "down" /\ pc' = "idle" /\ index'.exists) => EncodedBy(index'.vectors, vectorizer')]_vars

\* the content and the metadata at position k belong to one document
OwnMetadata(k) ==
  \E b \in ImportBatches :
    \E j \in DOMAIN b.documents : b.documents[j] = documents[k] /\ b.metadatas[j] = metadata[k]

\* C30: after any sequence of imports, resets and reloads, the reload after
\* a save cut short included, the index has as many vectors as there are
\* stored contents and stored metadata entries, and the content and the
\* metadata at one position belong to the same document.
C30_CountsAgree ==
  pc = "idle" =>
    /\ Len(index.vectors) = Len(documents)
    /\ Len(documents) = Len(metadata)
    /\ \A k \in DOMAIN documents : OwnMetadata(k)

=============================================================================
